---- MODULE Spec2Model ----
(***************************************************************************)
(* Model of mvc/activator/activator.go: the activation of a controller     *)
(* (Register, ActivateController, RegisterMethodHandlers) and the          *)
(* per-request handler built by TController.HandlerOf.                     *)
(*                                                                         *)
(* Go values are modelled as follows.  A nil pointer is the empty tuple    *)
(* Nil and a non-nil pointer is the one-element tuple Ref(record).  A      *)
(* slice is a header [arr, len, cap] over a backing array of `arrays`.     *)
(* Controller instances live in `heap`; heap[1] is the instance handed to   *)
(* Register, every other cell is a reflect.New(elem).                      *)
(***************************************************************************)
EXTENDS Integers, Sequences, FiniteSets, TLC

\* ------------------------------------------------------------------ bounds
MaxRequests == 2        \* requests served, concurrently or one after the other
MaxSpare == 1           \* spare capacity of the binder's middleware slice
MaxDirect == 1          \* calls of the exported HandlerOf made by other callers

\* ------------------------------------------------------- values of the model
Nil == <<>>
Ref(x) == <<x>>
Deref(p) == p[1]

TemplateCounters == {0, 5}    \* values of the template's Counter field
ServedCounters == {5}         \* the template's Counter in the served scenarios
MutatedCounters == {9}        \* what a user method may write into its Counter

\* reflect.Type.Method(i) numbers the exported methods of *Controller in
\* name order, from 0.
TypeMethods == <<"BeginRequest", "EndRequest", "Get", "Post", "SetName">>
NumMethod == Len(TypeMethods)

MethodFunc(name, verb, index, call) ==
    [Name |-> name, HTTPMethod |-> verb, RelPath |-> "/", Index |-> index,
     MethodCall |-> call]

GetFunc == MethodFunc("Get", "GET", 2, "call")
PostFunc == MethodFunc("Post", "POST", 3, "call")
\* the zero MethodFunc{} (no adapter) and one whose Index names no method
NoCallFunc == MethodFunc("", "", 0, "nil")
BadIndexFunc == MethodFunc("Put", "PUT", 7, "call")

WellFormed(m) == m.MethodCall # "nil" /\ m.Index \in 0..(NumMethod - 1)

AnyMethodFuncs == {GetFunc, PostFunc, NoCallFunc, BadIndexFunc}

\* what methodfunc.Resolve may return for the type: the methods it could
\* resolve, in method order, and an error or none
ResolvedLists == {<<>>, <<GetFunc>>, <<PostFunc>>, <<GetFunc, PostFunc>>}

VARIABLES
    cfg,        \* the inputs of Register: the template's type and the host
    heap,       \* controller instances: heap[1] is the template
    bindValues, \* the bindValues slice of Register, as the hook leaves it
    regpc,      \* where Register is
    t,          \* the TController built by ActivateController, or Nil
    regErr,     \* the error Register returned, "" for nil
    rmh,        \* locals of RegisterMethodHandlers
    arrays,     \* backing arrays of the handler slices
    closures,   \* the handlers HandlerOf has built, in order
    calls,      \* the calls of registerFunc, in order
    log,        \* golog lines above debug level
    direct,     \* results of HandlerOf calls made outside Register
    reqs        \* the requests: position in the handler, context, trace

vars == <<cfg, heap, bindValues, regpc, t, regErr, rmh, arrays, closures,
          calls, log, direct, reqs>>

regVars == <<cfg, bindValues, regpc, t, regErr, rmh, arrays, closures, calls,
             log, direct>>

\* --------------------------------------------------------------- the heap
\* reflect.New(elem): a zero-valued controller
ZeroInstance == [Name |-> "", Counter |-> 0, Dep |-> ""]

\* ------------------------------------------------------------ collaborators
\* newBinder(elem, bindValues): nil without values; handlers among the values
\* become middleware, the others are bound to fields.
IsHandlerValue(v) == v \in {"mw1", "mw2"}

RECURSIVE SelectHandlers(_)
SelectHandlers(s) ==
    IF s = <<>> THEN <<>>
    ELSE IF IsHandlerValue(Head(s)) THEN <<Head(s)>> \o SelectHandlers(Tail(s))
         ELSE SelectHandlers(Tail(s))

RECURSIVE SelectFields(_)
SelectFields(s) ==
    IF s = <<>> THEN <<>>
    ELSE IF IsHandlerValue(Head(s)) THEN SelectFields(Tail(s))
         ELSE <<Head(s)>> \o SelectFields(Tail(s))

\* a cell of a handler slice: a middleware handler is a negative number, a
\* handler built by HandlerOf is its index in `closures`, 0 is an unused cell
MwCell(v) == IF v = "mw1" THEN -1 ELSE -2
EmptyCell == 0
NilSlice == [arr |-> 0, len |-> 0, cap |-> 0]

\* the backing array of the binder's middleware slice: the first array made
binderCells(values, spare) ==
    LET mw == SelectHandlers(values) IN
    [i \in 1..(Len(mw) + spare) |-> IF i <= Len(mw) THEN MwCell(mw[i]) ELSE EmptyCell]

newBinder(values, spare) ==
    IF values = <<>> THEN Nil
    ELSE LET mw == SelectHandlers(values) IN
         Ref([fields |-> SelectFields(values),
              middleware |-> IF mw = <<>> THEN NilSlice
                             ELSE [arr |-> Len(arrays) + 1, len |-> Len(mw),
                                   cap |-> Len(mw) + spare]])

\* binder.handle(c): sets the bound fields of the instance
binderHandle(b, inst) ==
    IF b.fields = <<>> THEN inst ELSE [inst EXCEPT !.Dep = b.fields[Len(b.fields)]]

\* persistence.Load(typ, val): nil when the type marks no field persistent,
\* else a snapshot of the template's persistent fields
persistenceLoad(hasField, val) ==
    IF hasField THEN Ref([Counter |-> val.Counter]) ELSE Nil

\* persistence.Controller.Handle(c): restores the snapshot onto the instance
persistenceHandle(pc, inst) == [inst EXCEPT !.Counter = pc.Counter]

\* model.Load(typ): nil when the type marks no model field
modelLoad(hasField) == IF hasField THEN Ref([field |-> "Counter"]) ELSE Nil

\* model.Controller.Handle(ctx, c): the value put into the context's view data
modelHandle(mc, inst) == inst.Counter

\* ----------------------------------------------------- ActivateController
\* lines 72-108: the descriptor and the error, which is always nil
ActivateController(base, values) ==
    [t |-> Ref([Name |-> "Controller",
                FullName |-> "pkg.Controller",
                Type |-> "*Controller",
                Value |-> base,
                binder |-> newBinder(values, cfg.spare),
                modelController |-> modelLoad(cfg.modelField),
                persistenceController |->
                    persistenceLoad(cfg.persistentField, heap[base])]),
     err |-> ""]

\* reflect.Type.Elem of the pointer type
Elem(typ) == "Controller"

\* HandlerOf with hasModels taken from the persistence controller
HandlerOfModelFlagFromPersistence(tc, methodFunc) ==
    Ref([elem |-> Elem(tc.Type),
         ctrlName |-> tc.Name,
         hasPersistenceData |-> tc.persistenceController # Nil,
         hasModels |-> tc.persistenceController # Nil,
         handleRequest |-> methodFunc.MethodCall,
         Index |-> methodFunc.Index,
         t |-> tc])

\* ---------------------------------------------------------------- HandlerOf
\* lines 111-123: what the returned closure captures.  The result is never
\* nil: the method descriptor is not inspected.
HandlerOf(tc, methodFunc) ==
    Ref([elem |-> Elem(tc.Type),
         ctrlName |-> tc.Name,
         hasPersistenceData |-> tc.persistenceController # Nil,
         hasModels |-> tc.modelController # Nil,
         handleRequest |-> methodFunc.MethodCall,
         Index |-> methodFunc.Index,
         t |-> tc])

\* ------------------------------------------------------------------ slices
SliceElems(s) == IF s.len = 0 THEN <<>> ELSE SubSeq(arrays[s.arr], 1, s.len)

\* append(s, x): in place when the slice has spare capacity, else into a new
\* backing array; gives the new header and the new `arrays`
GoAppend(s, x) ==
    IF s.len < s.cap
    THEN [slice |-> [s EXCEPT !.len = s.len + 1],
          arrays |-> [arrays EXCEPT ![s.arr][s.len + 1] = x]]
    ELSE LET ncap == IF s.cap = 0 THEN 1 ELSE 2 * s.cap
             cells == [i \in 1..ncap |->
                          IF i <= s.len THEN arrays[s.arr][i]
                          ELSE IF i = s.len + 1 THEN x ELSE EmptyCell]
         IN [slice |-> [arr |-> Len(arrays) + 1, len |-> s.len + 1, cap |-> ncap],
             arrays |-> Append(arrays, cells)]

\* ------------------------------------------------------------------- Init
BindInputs == {<<>>, <<"dep">>, <<"mw1">>, <<"dep", "mw1">>, <<"mw2", "mw1">>}

\* the inputs of Register and the behaviour of its collaborators
Configs ==
    [counter : TemplateCounters,    \* the template's Counter field
     persistentField : BOOLEAN,     \* the type marks Counter persistent
     modelField : BOOLEAN,          \* the type marks a model field
     bind : BindInputs,             \* the bindValues given to Register
     hook : {"none", "add", "replace"},  \* what the template's hook does
     spare : 0..MaxSpare,           \* spare capacity of binder.middleware
     resolved : ResolvedLists,      \* what methodfunc.Resolve returns
     resolveErr : {"", "unresolvable method"},
     keepsList : BOOLEAN]           \* the host keeps the handler list it is given

\* the registrations whose routes are then served: every combination of the
\* three collaborators with one route, and all three with two routes
ServedConfigs ==
    {c \in Configs :
        /\ c.counter \in ServedCounters
        /\ c.bind \in {<<>>, <<"dep", "mw1">>}
        /\ c.hook = "none"
        /\ c.spare = 0
        /\ c.resolveErr = ""
        /\ c.keepsList
        /\ \/ c.resolved = <<GetFunc>>
           \/ /\ c.resolved = <<GetFunc, PostFunc>>
              /\ c.persistentField /\ c.modelField /\ c.bind # <<>>}

IdleRequest ==
    [pc |-> "idle", route |-> 0, h |-> 0, c |-> 0, stopped |-> FALSE,
     checks |-> 0, trace |-> <<>>]

InitWith(configs) ==
    /\ cfg \in configs
    /\ heap = <<[ZeroInstance EXCEPT !.Counter = cfg.counter]>>
    /\ bindValues = cfg.bind
    /\ regpc = "start"
    /\ t = Nil
    /\ regErr = ""
    /\ rmh = [middleware |-> NilSlice, methods |-> <<>>, i |-> 0]
    /\ arrays = <<>>
    /\ closures = <<>>
    /\ calls = <<>>
    /\ log = <<>>
    /\ direct = <<>>
    /\ reqs = [r \in 1..MaxRequests |-> IdleRequest]

\* ----------------------------------------------------------------- Register
\* line 219: CallOnActivate(controller, &bindValues, registerFunc); the
\* template's hook, when it has one, may add to or replace the bind values
HookResult(hook, values) ==
    CASE hook = "none" -> values
      [] hook = "add" -> values \o <<"hookdep">>
      [] hook = "replace" -> <<"hookdep">>

CallOnActivate ==
    /\ regpc = "start"
    /\ bindValues' = HookResult(cfg.hook, bindValues)
    /\ regpc' = "activate"
    /\ UNCHANGED <<cfg, heap, t, regErr, rmh, arrays, closures, calls, log,
                   direct, reqs>>

\* the hook given a copy of the bind values: ActivateController gets the
\* values Register was called with
RegisterActivateCallerValues ==
    /\ regpc = "activate"
    /\ LET r == ActivateController(1, cfg.bind) IN
       /\ t' = r.t
       /\ arrays' = IF Deref(r.t).binder # Nil
                       /\ Deref(Deref(r.t).binder).middleware.len > 0
                    THEN Append(arrays, binderCells(cfg.bind, cfg.spare))
                    ELSE arrays
       /\ regErr' = regErr /\ regpc' = "rmh"
    /\ UNCHANGED <<cfg, heap, bindValues, rmh, closures, calls, log, direct, reqs>>

\* lines 221-224: t, err := ActivateController(controller, bindValues)
RegisterActivate ==
    /\ regpc = "activate"
    /\ LET r == ActivateController(1, bindValues) IN
       /\ t' = r.t
       /\ arrays' = IF Deref(r.t).binder # Nil
                       /\ Deref(Deref(r.t).binder).middleware.len > 0
                    THEN Append(arrays, binderCells(bindValues, cfg.spare))
                    ELSE arrays
       /\ IF r.err # ""
          THEN regErr' = r.err /\ regpc' = "done"
          ELSE regErr' = regErr /\ regpc' = "rmh"
    /\ UNCHANGED <<cfg, heap, bindValues, rmh, closures, calls, log, direct, reqs>>

\* a resolution error that ends the registration and is returned
RMHResolveStopsOnError ==
    /\ regpc = "rmh"
    /\ LET tc == Deref(t)
           m == IF tc.binder # Nil /\ Deref(tc.binder).middleware.len > 0
                THEN Deref(tc.binder).middleware ELSE NilSlice
       IN rmh' = [middleware |-> m, methods |-> cfg.resolved, i |-> 1]
    /\ log' = IF cfg.resolveErr # "" THEN Append(log, "error") ELSE log
    /\ IF cfg.resolveErr # ""
       THEN regpc' = "done" /\ regErr' = cfg.resolveErr
       ELSE regpc' = "loop" /\ regErr' = regErr
    /\ UNCHANGED <<cfg, heap, bindValues, t, arrays, closures, calls,
                   direct, reqs>>

\* lines 176-189 of RegisterMethodHandlers: the middleware and the methods
RMHResolve ==
    /\ regpc = "rmh"
    /\ LET tc == Deref(t)
           m == IF tc.binder # Nil /\ Deref(tc.binder).middleware.len > 0
                THEN Deref(tc.binder).middleware ELSE NilSlice
       IN rmh' = [middleware |-> m, methods |-> cfg.resolved, i |-> 1]
    /\ log' = IF cfg.resolveErr # "" THEN Append(log, "error") ELSE log
    /\ regpc' = "loop"
    /\ UNCHANGED <<cfg, heap, bindValues, t, regErr, arrays, closures, calls,
                   direct, reqs>>

\* registerFunc(relPath, httpMethod, handlers...): the host records the call;
\* `handlers` is the slice it was given, `kept` its elements at the call
RegisterFuncCall(m, list) ==
    [relPath |-> m.RelPath, httpMethod |-> m.HTTPMethod, handlers |-> list.slice,
     kept |-> SubSeq(list.arrays[list.slice.arr], 1, list.slice.len)]

\* the loop leaving after its first registration
RMHLoopReturns ==
    /\ regpc = "loop"
    /\ rmh.i <= Len(rmh.methods)
    /\ LET m == rmh.methods[rmh.i]
           h == HandlerOf(Deref(t), m)
           registeredHandlers == GoAppend(rmh.middleware, Len(closures) + 1)
       IN /\ closures' = Append(closures, Deref(h))
          /\ arrays' = registeredHandlers.arrays
          /\ calls' = Append(calls, RegisterFuncCall(m, registeredHandlers))
    /\ rmh' = [rmh EXCEPT !.i = Len(rmh.methods) + 1]
    /\ UNCHANGED <<cfg, heap, bindValues, regpc, t, regErr, log, direct, reqs>>

\* the loop registering the handler alone, without the middleware
RMHLoopNoMiddleware ==
    /\ regpc = "loop"
    /\ rmh.i <= Len(rmh.methods)
    /\ LET m == rmh.methods[rmh.i]
           h == HandlerOf(Deref(t), m)
           registeredHandlers == GoAppend(NilSlice, Len(closures) + 1)
       IN /\ closures' = Append(closures, Deref(h))
          /\ arrays' = registeredHandlers.arrays
          /\ calls' = Append(calls, RegisterFuncCall(m, registeredHandlers))
    /\ rmh' = [rmh EXCEPT !.i = rmh.i + 1]
    /\ UNCHANGED <<cfg, heap, bindValues, regpc, t, regErr, log, direct, reqs>>

\* lines 196-210: one round of the loop over the methods
RMHLoop ==
    /\ regpc = "loop"
    /\ rmh.i <= Len(rmh.methods)
    /\ LET m == rmh.methods[rmh.i]
           h == HandlerOf(Deref(t), m)
       IN IF h = Nil
          THEN /\ log' = Append(log, "warn")
               /\ UNCHANGED <<arrays, closures, calls>>
          ELSE LET registeredHandlers == GoAppend(rmh.middleware, Len(closures) + 1)
               IN /\ closures' = Append(closures, Deref(h))
                  /\ arrays' = registeredHandlers.arrays
                  /\ calls' = Append(calls, RegisterFuncCall(m, registeredHandlers))
                  /\ log' = log
    /\ rmh' = [rmh EXCEPT !.i = rmh.i + 1]
    /\ UNCHANGED <<cfg, heap, bindValues, regpc, t, regErr, direct, reqs>>

\* lines 211 and 226-227: the loop is over, Register returns nil
RMHReturn ==
    /\ regpc = "loop"
    /\ rmh.i > Len(rmh.methods)
    /\ regpc' = "done"
    /\ regErr' = ""
    /\ UNCHANGED <<cfg, heap, bindValues, t, rmh, arrays, closures, calls, log,
                   direct, reqs>>

\* another caller uses the exported HandlerOf with a MethodFunc of its own
DirectHandlerOf ==
    /\ regpc = "done"
    /\ t # Nil
    /\ Len(direct) < MaxDirect
    /\ \E m \in AnyMethodFuncs :
          direct' = Append(direct, [m |-> m, h |-> HandlerOf(Deref(t), m)])
    /\ UNCHANGED <<cfg, heap, bindValues, regpc, t, regErr, rmh, arrays, closures,
                   calls, log, reqs>>

\* ------------------------------------------------------ the request handler
Requests == 1..MaxRequests

\* the handler the host router runs last for a route: the last element of the
\* list it was given, read now when it kept the list, else as copied then
RouteHandler(k) ==
    IF cfg.keepsList
    THEN arrays[calls[k].handlers.arr][calls[k].handlers.len]
    ELSE calls[k].kept[Len(calls[k].kept)]

\* a line of a request's trace: the stage that ran, the instance it was given,
\* a value it saw or produced, and ctx.IsStopped() when it returned
Entry(op, c, arg, stopped) == [op |-> op, c |-> c, arg |-> arg, stopped |-> stopped]

Closure(i) == closures[reqs[i].h]

\* New with the instances pooled: the instance of an earlier request is
\* handed out again, as it was left
NewPooled(i) ==
    /\ regpc = "done"
    /\ reqs[i].pc = "idle"
    /\ IF i = 1 THEN TRUE ELSE reqs[i - 1].pc # "idle"
    /\ LET c == IF Len(heap) > 1 THEN 2 ELSE Len(heap) + 1 IN
       /\ heap' = IF Len(heap) > 1 THEN heap ELSE Append(heap, ZeroInstance)
       /\ \E k \in 1..Len(calls), stopped \in BOOLEAN :
             reqs' = [reqs EXCEPT ![i] = [@ EXCEPT !.pc = "bind", !.route = k,
                         !.h = RouteHandler(k), !.stopped = stopped, !.c = c,
                         !.trace = Append(@, Entry("new", c, 0, stopped))]]
    /\ UNCHANGED regVars

\* New with the stopped check first: a stopped request returns at once
NewChecksFirst(i) ==
    /\ regpc = "done"
    /\ reqs[i].pc = "idle"
    /\ IF i = 1 THEN TRUE ELSE reqs[i - 1].pc # "idle"
    /\ heap' = Append(heap, ZeroInstance)
    /\ \E k \in 1..Len(calls), stopped \in BOOLEAN :
          reqs' = [reqs EXCEPT ![i] = [@ EXCEPT
                      !.pc = IF stopped THEN "done" ELSE "bind", !.route = k,
                      !.h = RouteHandler(k), !.stopped = stopped,
                      !.checks = IF stopped THEN 1 ELSE 0,
                      !.c = Len(heap) + 1,
                      !.trace = Append(@, Entry("new", Len(heap) + 1, 0, stopped))]]
    /\ UNCHANGED regVars

\* lines 123-125: the host router runs the handler of a registered route for
\* a request, whose context the handlers before it (middleware) have left
\* stopped or not, and the handler starts with c := reflect.New(elem).
\* Requests are numbered in the order their handlers start.
New(i) ==
    /\ regpc = "done"
    /\ reqs[i].pc = "idle"
    /\ IF i = 1 THEN TRUE ELSE reqs[i - 1].pc # "idle"
    /\ heap' = Append(heap, ZeroInstance)
    /\ \E k \in 1..Len(calls), stopped \in BOOLEAN :
          reqs' = [reqs EXCEPT ![i] = [@ EXCEPT !.pc = "bind", !.route = k,
                      !.h = RouteHandler(k), !.stopped = stopped,
                      !.c = Len(heap) + 1,
                      !.trace = Append(@, Entry("new", Len(heap) + 1, 0, stopped))]]
    /\ UNCHANGED regVars

\* lines 126-128: if t.binder != nil { t.binder.handle(c) }
Bind(i) ==
    /\ reqs[i].pc = "bind"
    /\ LET b == Closure(i).t.binder
           c == reqs[i].c
       IN IF b # Nil
          THEN /\ heap' = [heap EXCEPT ![c] = binderHandle(Deref(b), @)]
               /\ reqs' = [reqs EXCEPT ![i] = [@ EXCEPT !.pc = "name",
                              !.trace = Append(@, Entry("bind", c, 0, reqs[i].stopped))]]
          ELSE /\ heap' = heap
               /\ reqs' = [reqs EXCEPT ![i].pc = "name"]
    /\ UNCHANGED regVars

\* SetName applied to the template t.Value instead of the new instance
SetNameOnTemplate(i) ==
    /\ reqs[i].pc = "name"
    /\ LET c == reqs[i].c IN
       /\ heap' = [heap EXCEPT ![Closure(i).t.Value].Name = Closure(i).ctrlName]
       /\ reqs' = [reqs EXCEPT ![i] = [@ EXCEPT !.pc = "persist",
                      !.trace = Append(@, Entry("SetName", c, 0, reqs[i].stopped))]]
    /\ UNCHANGED regVars

\* lines 130-131: b.SetName(ctrlName)
SetName(i) ==
    /\ reqs[i].pc = "name"
    /\ LET c == reqs[i].c IN
       /\ heap' = [heap EXCEPT ![c].Name = Closure(i).ctrlName]
       /\ reqs' = [reqs EXCEPT ![i] = [@ EXCEPT !.pc = "persist",
                      !.trace = Append(@, Entry("SetName", c, 0, reqs[i].stopped))]]
    /\ UNCHANGED regVars

\* Persist with the presence test inverted: the restore never runs when
\* there is something to restore
PersistInverted(i) ==
    /\ reqs[i].pc = "persist"
    /\ reqs' = [reqs EXCEPT ![i].pc = "check1"]
    /\ UNCHANGED <<heap, regVars>>

\* lines 135-137: if hasPersistenceData { t.persistenceController.Handle(c) }
Persist(i) ==
    /\ reqs[i].pc = "persist"
    /\ LET c == reqs[i].c IN
       IF Closure(i).hasPersistenceData
       THEN /\ heap' = [heap EXCEPT ![c] =
                   persistenceHandle(Deref(Closure(i).t.persistenceController), @)]
            /\ reqs' = [reqs EXCEPT ![i] = [@ EXCEPT !.pc = "check1",
                           !.trace = Append(@, Entry("persistence", c, 0, reqs[i].stopped))]]
       ELSE /\ heap' = heap
            /\ reqs' = [reqs EXCEPT ![i].pc = "check1"]
    /\ UNCHANGED regVars

\* Check1 without its return: BeginRequest runs on a stopped request
Check1Ignored(i) ==
    /\ reqs[i].pc = "check1"
    /\ reqs' = [reqs EXCEPT ![i] = [@ EXCEPT !.checks = @ + 1, !.pc = "begin"]]
    /\ UNCHANGED <<heap, regVars>>

\* lines 141-143: if ctx.IsStopped() { return }
Check1(i) ==
    /\ reqs[i].pc = "check1"
    /\ reqs' = [reqs EXCEPT ![i] = [@ EXCEPT !.checks = @ + 1,
                   !.pc = IF reqs[i].stopped THEN "done" ELSE "begin"]]
    /\ UNCHANGED <<heap, regVars>>

\* line 146: b.BeginRequest(ctx); the hook may stop the execution
BeginRequest(i) ==
    /\ reqs[i].pc = "begin"
    /\ \E stop \in BOOLEAN :
          reqs' = [reqs EXCEPT ![i] = [@ EXCEPT !.pc = "check2", !.stopped = stop,
                      !.trace = Append(@, Entry("BeginRequest", reqs[i].c,
                                                heap[reqs[i].c].Counter, stop))]]
    /\ UNCHANGED <<heap, regVars>>

\* Check2 that skips only the user method: a request BeginRequest stopped
\* goes on with the model and EndRequest
Check2SkipsMethodOnly(i) ==
    /\ reqs[i].pc = "check2"
    /\ reqs' = [reqs EXCEPT ![i] = [@ EXCEPT !.checks = @ + 1,
                   !.pc = IF reqs[i].stopped THEN "model" ELSE "method"]]
    /\ UNCHANGED <<heap, regVars>>

\* lines 147-149: if ctx.IsStopped() { return }
Check2(i) ==
    /\ reqs[i].pc = "check2"
    /\ reqs' = [reqs EXCEPT ![i] = [@ EXCEPT !.checks = @ + 1,
                   !.pc = IF reqs[i].stopped THEN "done" ELSE "method"]]
    /\ UNCHANGED <<heap, regVars>>

\* line 154: handleRequest(ctx, c.Method(methodFunc.Index)); the user method
\* may stop the execution and may write its own instance's fields.  A nil
\* adapter or an index out of range panics.
Method(i) ==
    /\ reqs[i].pc = "method"
    /\ LET c == reqs[i].c
           h == Closure(i)
       IN IF h.handleRequest # "nil" /\ h.Index \in 0..(NumMethod - 1)
          THEN \E stop \in BOOLEAN, v \in MutatedCounters \cup {heap[c].Counter} :
                 /\ heap' = [heap EXCEPT ![c].Counter = v]
                 /\ reqs' = [reqs EXCEPT ![i] = [@ EXCEPT !.pc = "model",
                                !.stopped = stop,
                                !.trace = Append(@, Entry(TypeMethods[h.Index + 1],
                                                          c, h.Index, stop))]]
          ELSE /\ heap' = heap
               /\ reqs' = [reqs EXCEPT ![i].pc = "panicked"]
    /\ UNCHANGED regVars

\* Model with the presence test inverted
ModelInverted(i) ==
    /\ reqs[i].pc = "model"
    /\ reqs' = [reqs EXCEPT ![i].pc = "end"]
    /\ UNCHANGED <<heap, regVars>>

\* lines 156-158: if hasModels { t.modelController.Handle(ctx, c) }
Model(i) ==
    /\ reqs[i].pc = "model"
    /\ LET c == reqs[i].c IN
       IF Closure(i).hasModels
       THEN reqs' = [reqs EXCEPT ![i] = [@ EXCEPT !.pc = "end",
                        !.trace = Append(@, Entry("model", c,
                            modelHandle(Deref(Closure(i).t.modelController),
                                        heap[c]), reqs[i].stopped))]]
       ELSE reqs' = [reqs EXCEPT ![i].pc = "end"]
    /\ UNCHANGED <<heap, regVars>>

\* EndRequest behind a third stopped check
EndRequestChecked(i) ==
    /\ reqs[i].pc = "end"
    /\ reqs' = [reqs EXCEPT ![i] =
                   IF reqs[i].stopped
                   THEN [@ EXCEPT !.pc = "done", !.checks = @ + 1]
                   ELSE [@ EXCEPT !.pc = "done", !.checks = @ + 1,
                            !.trace = Append(@, Entry("EndRequest", reqs[i].c, 0,
                                                      reqs[i].stopped))]]
    /\ UNCHANGED <<heap, regVars>>

\* line 162: b.EndRequest(ctx)
EndRequest(i) ==
    /\ reqs[i].pc = "end"
    /\ reqs' = [reqs EXCEPT ![i] = [@ EXCEPT !.pc = "done",
                   !.trace = Append(@, Entry("EndRequest", reqs[i].c, 0,
                                             reqs[i].stopped))]]
    /\ UNCHANGED <<heap, regVars>>

\* ------------------------------------------------------------ specifications
\* Spec: a registration of ServedConfigs and the requests to its routes
Init == InitWith(ServedConfigs)

Next ==
    \/ CallOnActivate
    \/ RegisterActivate
    \/ RMHResolve
    \/ RMHLoop
    \/ RMHReturn
    \/ \E i \in Requests : New(i)
    \/ \E i \in Requests : Bind(i)
    \/ \E i \in Requests : SetName(i)
    \/ \E i \in Requests : Persist(i)
    \/ \E i \in Requests : Check1(i)
    \/ \E i \in Requests : BeginRequest(i)
    \/ \E i \in Requests : Check2(i)
    \/ \E i \in Requests : Method(i)
    \/ \E i \in Requests : Model(i)
    \/ \E i \in Requests : EndRequest(i)

Spec == Init /\ [][Next]_vars

\* SpecReg: every registration, and the other callers of HandlerOf
InitReg == InitWith(Configs)

NextReg ==
    \/ CallOnActivate
    \/ RegisterActivate
    \/ RMHResolve
    \/ RMHLoop
    \/ RMHReturn
    \/ DirectHandlerOf

SpecReg == InitReg /\ [][NextReg]_vars

\* SpecShared: the requests to two routes of a controller whose middleware
\* slice has a spare cell, registered with a host that keeps the handler
\* lists it is given
SharedConfigs ==
    {c \in Configs :
        /\ c.counter \in ServedCounters
        /\ c.bind = <<"dep", "mw1">>
        /\ c.hook = "none"
        /\ c.spare = 1
        /\ c.resolveErr = ""
        /\ c.keepsList
        /\ c.resolved = <<GetFunc, PostFunc>>}

InitShared == InitWith(SharedConfigs)

SpecShared == InitShared /\ [][Next]_vars

\* ------------------------------------------------------ reading the traces
Started(i) == reqs[i].pc # "idle"
Ops(i) == [k \in 1..Len(reqs[i].trace) |-> reqs[i].trace[k].op]
Ran(i, op) == \E k \in 1..Len(reqs[i].trace) : reqs[i].trace[k].op = op
UserMethods == {"Get", "Post"}
RanMethod(i) == \E k \in 1..Len(reqs[i].trace) : reqs[i].trace[k].op \in UserMethods
IsPrefix(a, b) == Len(a) <= Len(b) /\ SubSeq(b, 1, Len(a)) = a

\* the context was stopped before the handler ran
StoppedOnEntry(i) == Len(reqs[i].trace) > 0 /\ reqs[i].trace[1].stopped
\* BeginRequest ran (the first checkpoint saw the flag clear) and set the flag
StoppedByBegin(i) ==
    \E k \in 1..Len(reqs[i].trace) :
        reqs[i].trace[k].op = "BeginRequest" /\ reqs[i].trace[k].stopped
\* the user method ran (both checkpoints saw the flag clear) and set the flag
StoppedByMethod(i) ==
    \E k \in 1..Len(reqs[i].trace) :
        reqs[i].trace[k].op \in UserMethods /\ reqs[i].trace[k].stopped
NeverStopped(i) ==
    ~reqs[i].stopped /\ \A k \in 1..Len(reqs[i].trace) : ~reqs[i].trace[k].stopped

HasBinder == t # Nil /\ Deref(t).binder # Nil
HasPersistence == t # Nil /\ Deref(t).persistenceController # Nil
HasModel == t # Nil /\ Deref(t).modelController # Nil

FullSequence(i) ==
    <<"new", "bind", "SetName", "persistence", "BeginRequest",
      TypeMethods[Closure(i).Index + 1], "model", "EndRequest">>

C2_UnobstructedOrder ==
    \A i \in Requests :
        (Started(i) /\ NeverStopped(i) /\ HasBinder /\ HasPersistence /\ HasModel) =>
            /\ IsPrefix(Ops(i), FullSequence(i))
            /\ reqs[i].pc = "done" => Ops(i) = FullSequence(i)
            /\ \A k \in 1..Len(reqs[i].trace) : reqs[i].trace[k].c = reqs[i].c
            /\ Ran(i, "SetName") => heap[reqs[i].c].Name = Deref(t).Name
            /\ Ran(i, "bind") => heap[reqs[i].c].Dep # ""

C2_Witness ==
    \E i \in Requests :
        /\ reqs[i].pc = "done" /\ NeverStopped(i)
        /\ HasBinder /\ HasPersistence /\ HasModel
        /\ Len(reqs[i].trace) = 8

\* C3: a request that is already stopped at the first checkpoint runs none of
\* BeginRequest, the user method, the model propagation and EndRequest.
C3_StoppedBeforeBegin ==
    \A i \in Requests :
        StoppedOnEntry(i) =>
            /\ ~Ran(i, "BeginRequest") /\ ~RanMethod(i)
            /\ ~Ran(i, "model") /\ ~Ran(i, "EndRequest")
            /\ reqs[i].pc \in {"bind", "name", "persist", "check1", "done"}

C3_Witness ==
    \E i \in Requests :
        reqs[i].pc = "done" /\ StoppedOnEntry(i) /\ reqs[i].checks = 1

\* C4: every handler invocation allocates a new zero-valued instance, which is
\* not the template, and every stage of a request is given that request's
\* instance and no other request's.
C4_FreshInstance ==
    \A i \in Requests :
        /\ reqs[i].c # 0 =>
              /\ reqs[i].c # 1
              /\ reqs[i].c \in 2..Len(heap)
              /\ reqs[i].pc = "bind" => heap[reqs[i].c] = ZeroInstance
        /\ \A k \in 1..Len(reqs[i].trace) : reqs[i].trace[k].c = reqs[i].c
        /\ \A j \in Requests \ {i} :
              \A k \in 1..Len(reqs[i].trace), l \in 1..Len(reqs[j].trace) :
                  reqs[i].trace[k].c # reqs[j].trace[l].c

\* two requests to one route, and two to different routes, both under way
C4_Witness ==
    \E i, j \in Requests :
        /\ i # j
        /\ reqs[i].route = reqs[j].route
        /\ reqs[i].pc = "model" /\ reqs[j].pc = "begin"
        /\ reqs[i].c > reqs[j].c

\* C5: with a persistent field whose template value is v at activation, the
\* instance given to BeginRequest has that field equal to v in every request,
\* whatever earlier and concurrent requests wrote into their own instances.
C5_PersistentAtBegin ==
    \A i \in Requests :
        \A k \in 1..Len(reqs[i].trace) :
            (cfg.persistentField /\ reqs[i].trace[k].op = "BeginRequest") =>
                reqs[i].trace[k].arg = cfg.counter

\* a request reaches BeginRequest after another one has overwritten its Counter
C5_Witness ==
    \E i, j \in Requests :
        /\ i # j /\ cfg.persistentField
        /\ RanMethod(j) /\ heap[reqs[j].c].Counter # cfg.counter
        /\ reqs[i].pc = "check2" /\ reqs[i].c > reqs[j].c

\* C6: when the user method stops the request, the model propagation (when
\* present) and EndRequest still run; the stopped flag is read at two places
\* only, after the persistence restore and after BeginRequest, and not before
\* EndRequest.
ChecksDone(i) ==
    CASE reqs[i].pc \in {"idle", "bind", "name", "persist", "check1"} -> 0
      [] reqs[i].pc \in {"begin", "check2"} -> 1
      [] reqs[i].pc \in {"method", "model", "end", "panicked"} -> 2
      [] reqs[i].pc = "done" -> IF Ran(i, "BeginRequest") THEN 2 ELSE 1

C6_EndAlwaysRuns ==
    \A i \in Requests :
        /\ reqs[i].checks = ChecksDone(i)
        /\ (reqs[i].pc = "done" /\ StoppedByMethod(i)) =>
              /\ HasModel => Ran(i, "model")
              /\ Ran(i, "EndRequest")
              /\ reqs[i].trace[Len(reqs[i].trace)].op = "EndRequest"

C6_Witness ==
    \E i \in Requests :
        reqs[i].pc = "done" /\ StoppedByMethod(i) /\ HasModel /\ reqs[i].checks = 2

\* C8: RegisterMethodHandlers calls registerFunc once for every resolved
\* method whose handler is not nil, in the resolver's order, and for no other;
\* the routes are the resolved methods less the build failures, and a failure
\* does not end the loop.
BuildOk(m) == HandlerOf(Deref(t), m) # Nil
CountWarn == Cardinality({k \in 1..Len(log) : log[k] = "warn"})
RouteOf(m) == <<m.RelPath, m.HTTPMethod>>

C8_OneRoutePerBuiltHandler ==
    regpc \in {"loop", "done"} =>
        LET seen == SubSeq(rmh.methods, 1, rmh.i - 1)
            built == SelectSeq(seen, BuildOk)
        IN /\ rmh.methods = cfg.resolved
           /\ regpc = "done" => rmh.i = Len(rmh.methods) + 1
           /\ Len(calls) = Len(built)
           /\ Len(calls) = Len(seen) - CountWarn
           /\ \A k \in 1..Len(calls) :
                 /\ <<calls[k].relPath, calls[k].httpMethod>> = RouteOf(built[k])
                 /\ closures[calls[k].kept[Len(calls[k].kept)]].Index = built[k].Index

C8_Witness ==
    regpc = "done" /\ Len(cfg.resolved) = 2 /\ Len(calls) = 2

\* C9: no step of a request handler changes the descriptor, the template it
\* refers to, the binder's middleware, or what a handler closure captured.
HandlerStep == \E i \in Requests : reqs'[i] # reqs[i]

C9_DescriptorReadOnly ==
    [][HandlerStep =>
          /\ t' = t
          /\ heap'[Deref(t).Value] = heap[Deref(t).Value]
          /\ closures' = closures
          /\ arrays' = arrays
          /\ \A k \in 1..Len(closures) : closures[k].t = Deref(t)]_vars

C9_Witness ==
    \E i, j \in Requests :
        /\ i # j /\ reqs[i].pc = "done" /\ reqs[j].pc = "end"
        /\ heap[reqs[i].c].Counter # cfg.counter
        /\ heap[reqs[i].c].Name = Deref(t).Name

\* C10 (as stated): HandlerOf yields no handler for a malformed method
\* descriptor.
C10_MalformedYieldsNil ==
    \A k \in 1..Len(direct) :
        ~WellFormed(direct[k].m) => direct[k].h = Nil

\* C11: every call of registerFunc has the method's RelPath and HTTPMethod
\* and, as handlers, the binder's middleware in its order followed by the one
\* handler built for that method; without binder or middleware, that handler
\* alone.
RECURSIVE MwCells(_)
MwCells(values) ==
    IF values = <<>> THEN <<>>
    ELSE IF IsHandlerValue(Head(values))
         THEN <<MwCell(Head(values))>> \o MwCells(Tail(values))
         ELSE MwCells(Tail(values))

C11_RegisteredCall ==
    \A k \in 1..Len(calls) :
        LET m == cfg.resolved[k] IN
        /\ calls[k].relPath = m.RelPath
        /\ calls[k].httpMethod = m.HTTPMethod
        /\ calls[k].kept = MwCells(bindValues) \o <<k>>
        /\ calls[k].handlers.len = Len(calls[k].kept)
        /\ closures[k].Index = m.Index
        /\ closures[k].handleRequest = m.MethodCall

C11_Witness ==
    /\ regpc = "done"
    /\ Len(calls) = 2
    /\ calls[2].kept = <<-2, -1, 2>>
    /\ \E k \in 1..Len(calls) : Len(calls[k].kept) = 3

\* C12: when the resolver returns an error and some methods, every one of
\* these methods is registered and Register returns nil; the error is only
\* logged.
C12_ResolveErrorOnlyLogged ==
    (regpc = "done" /\ cfg.resolveErr # "") =>
        /\ regErr = ""
        /\ Len(calls) = Len(cfg.resolved)
        /\ \A k \in 1..Len(calls) :
              <<calls[k].relPath, calls[k].httpMethod>> = RouteOf(cfg.resolved[k])
        /\ \E k \in 1..Len(log) : log[k] = "error"

C12_Witness ==
    regpc = "done" /\ cfg.resolveErr # "" /\ Len(calls) = 2 /\ regErr = ""

\* C13: the pre-activation hook runs before the descriptor is built and
\* before any method is resolved or registered, and ActivateController is
\* given the bind values as the hook left them.
C13_HookBeforeActivation ==
    /\ regpc = "start" =>
          t = Nil /\ rmh.methods = <<>> /\ closures = <<>> /\ calls = <<>>
    /\ regpc # "start" => bindValues = HookResult(cfg.hook, cfg.bind)
    /\ t # Nil =>
          /\ regpc \notin {"start", "activate"}
          /\ (Deref(t).binder = Nil) = (bindValues = <<>>)
          /\ Deref(t).binder # Nil =>
                /\ Deref(Deref(t).binder).fields = SelectFields(bindValues)
                /\ Deref(Deref(t).binder).middleware.len =
                       Len(SelectHandlers(bindValues))

\* the hook has added a value to the caller's, and the binder binds both
C13_Witness ==
    /\ regpc = "done" /\ cfg.hook = "add" /\ cfg.bind = <<"dep">>
    /\ Deref(Deref(t).binder).fields = <<"dep", "hookdep">>
    /\ Len(calls) = 2

\* C17 (as stated): once every method is registered, the handler list given
\* to registerFunc for a route still ends with that route's own handler, also
\* when the middleware slice has spare capacity and the host keeps the list.
C17_ListsKeepOwnHandler ==
    regpc = "done" =>
        \A k \in 1..Len(calls) :
            arrays[calls[k].handlers.arr][calls[k].handlers.len] = k

\* C14 (as stated): a request to the route registered for a method
\* descriptor m invokes the method at index m.Index of its own instance, once
\* when nothing stops it, and never the method of another descriptor.
MethodEntries(i) ==
    {k \in 1..Len(reqs[i].trace) : reqs[i].trace[k].op \in UserMethods}

C14_RouteInvokesOwnMethod ==
    \A i \in Requests :
        Started(i) =>
            LET m == cfg.resolved[reqs[i].route] IN
            /\ \A k \in MethodEntries(i) :
                  /\ reqs[i].trace[k].arg = m.Index
                  /\ reqs[i].trace[k].op = m.Name
                  /\ reqs[i].trace[k].c = reqs[i].c
            /\ (reqs[i].pc = "done" /\ NeverStopped(i)) =>
                  Cardinality(MethodEntries(i)) = 1

\* C15: in each of the eight combinations of binder, persistence and model
\* controller, an unobstructed request runs the full sequence less the stages
\* of the absent collaborators; SetName, BeginRequest, the user method and
\* EndRequest always run, and the stage of an absent collaborator never runs.
StagePresent(op) ==
    CASE op = "bind" -> cfg.bind # <<>>
      [] op = "persistence" -> cfg.persistentField
      [] op = "model" -> cfg.modelField
      [] OTHER -> TRUE

ExpectedSequence(i) == SelectSeq(FullSequence(i), StagePresent)

C15_AbsentStagesRemoved ==
    \A i \in Requests :
        /\ \A k \in 1..Len(reqs[i].trace) : StagePresent(reqs[i].trace[k].op)
        /\ (Started(i) /\ NeverStopped(i)) =>
              /\ IsPrefix(Ops(i), ExpectedSequence(i))
              /\ reqs[i].pc = "done" => Ops(i) = ExpectedSequence(i)

\* an unobstructed request of a controller with a model controller only
C15_Witness ==
    \E i \in Requests :
        /\ reqs[i].pc = "done" /\ NeverStopped(i)
        /\ cfg.bind = <<>> /\ ~cfg.persistentField /\ cfg.modelField
        /\ Ops(i) = <<"new", "SetName", "BeginRequest", "Get", "model",
                      "EndRequest">>

\* C16: for a request that is stopped on entry, the handler still allocates
\* the instance, applies the binder (when present), sets the name and
\* restores the persistent fields (when present) before it returns at the
\* first checkpoint.
EntrySequence ==
    SelectSeq(<<"new", "bind", "SetName", "persistence">>, StagePresent)

C16_StoppedCheckAfterSetup ==
    \A i \in Requests :
        StoppedOnEntry(i) =>
            /\ IsPrefix(Ops(i), EntrySequence)
            /\ reqs[i].checks = 1 => Ops(i) = EntrySequence
            /\ reqs[i].pc = "done" =>
                  /\ reqs[i].checks = 1
                  /\ heap[reqs[i].c].Name = Deref(t).Name
                  /\ cfg.persistentField =>
                        heap[reqs[i].c].Counter = cfg.counter
                  /\ cfg.bind # <<>> => heap[reqs[i].c].Dep # ""

C16_Witness ==
    \E i \in Requests :
        /\ reqs[i].pc = "done" /\ StoppedOnEntry(i)
        /\ Ops(i) = <<"new", "bind", "SetName", "persistence">>

====
